---- MODULE Spec2Model ----
(***************************************************************************)
(* Short-form video composition engine (compose_video.py), in its two      *)
(* implementations: content-to-short (with subtitles) and short-video-gen. *)
(*                                                                         *)
(* One run of main() is a sequential process; pc is its position.  Every   *)
(* external subprocess (ffprobe / ffmpeg) is one step whose outcome        *)
(* (success or failure, length of the produced media) is chosen by the     *)
(* environment.  Media lengths are counted in frames of 1/25 s, and the    *)
(* float scale factor is kept as an exact fraction num/den.                *)
(*                                                                         *)
(* Spec is the run of main() on scripts with the default title, SpecTitles *)
(* the same run on scripts of every title, and SpecCaptions applies the    *)
(* caption generators to scene lists and word lists of every kind.         *)
(***************************************************************************)
EXTENDS Integers, Sequences, FiniteSets, TLC

VARIABLES engine, script_data, slug, no_music, pc, i, narration, music,
          has_music, enable_subtitles, audio_duration, scale_factor, temp_clips,
          attempt, files, calls, failure, exit_code, final_duration, writes,
          other

vars == <<engine, script_data, slug, no_music, pc, i, narration, music,
          has_music, enable_subtitles, audio_duration, scale_factor, temp_clips,
          attempt, files, calls, failure, exit_code, final_duration, writes,
          other>>

(* ------------------------------ bounds --------------------------------- *)
MaxScenes == 2
MaxWords == 3          \* words in a list of word timestamps
MaxChunk == 3          \* words_per_chunk of generate_ass_word_synced

(* ------------------------- program constants --------------------------- *)
FPS == 25
DefaultDuration == 5
Missing == -1          \* the "duration" key is absent from the scene

Engines == {"content-to-short", "short-video-gen"}

(* ------------------------ environment inputs --------------------------- *)
VisualTypes == {"web", "video"}
ScriptedDurations == {Missing, 2}   \* of a script whose scripted sum is > 0
NarrationFrames == {100}         \* measured narration length, in frames
MusicFrames == {50, 500}         \* length of the music track, in frames
NativeClipFrames == {125}        \* length of a pre-generated AI video clip
WordLists == { <<>>,
               << [word |-> "the", start |-> 0, end |-> 5],
                  [word |-> "quick", start |-> 5, end |-> 12] >> }

\* narration texts of a scene: a sequence of characters; Narrated has
\* words, the others are empty, blank, and padded with blanks
Narrated == << "h", "i" >>
Narrations == { <<>>, << " " >>, Narrated, << " ", "h", "i", " " >> }

ScenesOf(n, visual_types, durations, narrations) ==
    { s \in [1..n -> [sceneNumber : 1..n, visualType : visual_types,
                      duration : durations, narration : narrations]] :
          \A k \in 1..n : s[k].sceneNumber = k }

\* scenes that all have a narration
ScenesWith(n, durations) ==
    ScenesOf(n, VisualTypes, durations, {Narrated})

\* scripts of 0..MaxScenes scenes: scripted durations missing or positive,
\* or all of them 0 (the scripted sum is 0)
SceneLists ==
    UNION { ScenesWith(n, ScriptedDurations) \cup ScenesWith(n, {0})
            : n \in 0..MaxScenes }

(* ------------------------------- text --------------------------------- *)
\* a text is a sequence of one-character strings
UpperCase == << "A", "B", "C", "D", "E", "F", "G", "H", "I", "J", "K", "L",
                "M", "N", "O", "P", "Q", "R", "S", "T", "U", "V", "W", "X",
                "Y", "Z" >>
LowerCase == << "a", "b", "c", "d", "e", "f", "g", "h", "i", "j", "k", "l",
                "m", "n", "o", "p", "q", "r", "s", "t", "u", "v", "w", "x",
                "y", "z" >>
Digits == << "0", "1", "2", "3", "4", "5", "6", "7", "8", "9" >>
SlugLimit == 60

\* str.lower(), one character
Lower(c) ==
    IF \E k \in 1..26 : UpperCase[k] = c
    THEN LowerCase[CHOOSE k \in 1..26 : UpperCase[k] = c]
    ELSE c

\* \w and [-\s] of the regular expressions in slugify
IsWordChar(c) ==
    \/ \E k \in 1..26 : c \in {LowerCase[k], UpperCase[k]}
    \/ \E k \in 1..10 : c = Digits[k]
    \/ c = "_"
IsSeparator(c) == c \in {" ", "-"}

\* str(n) of a natural number
RECURSIVE Str(_)
Str(n) ==
    IF n < 10 THEN << Digits[n + 1] >>
    ELSE Str(n \div 10) \o << Digits[(n % 10) + 1] >>

\* re.sub(r'[^\w\s-]', '', text.lower())
RECURSIVE KeepSlugChars(_)
KeepSlugChars(text) ==
    IF text = <<>> THEN <<>>
    ELSE LET c == Lower(Head(text))
         IN (IF IsWordChar(c) \/ IsSeparator(c) THEN << c >> ELSE <<>>)
               \o KeepSlugChars(Tail(text))

\* re.sub(r'[-\s]+', '-', slug)
RECURSIVE CollapseSeparators(_, _)
CollapseSeparators(text, in_run) ==
    IF text = <<>> THEN <<>>
    ELSE IF IsSeparator(Head(text))
         THEN (IF in_run THEN <<>> ELSE << "-" >>)
                 \o CollapseSeparators(Tail(text), TRUE)
         ELSE << Head(text) >> \o CollapseSeparators(Tail(text), FALSE)

\* .strip('-')
RECURSIVE StripHyphens(_)
StripHyphens(text) ==
    IF text = <<>> THEN <<>>
    ELSE IF Head(text) = "-" THEN StripHyphens(Tail(text))
    ELSE IF text[Len(text)] = "-"
         THEN StripHyphens(SubSeq(text, 1, Len(text) - 1))
    ELSE text

\* utils.slugify
slugify(text) ==
    LET whole == StripHyphens(CollapseSeparators(KeepSlugChars(text), FALSE))
    IN SubSeq(whole, 1,
              IF Len(whole) < SlugLimit THEN Len(whole) ELSE SlugLimit)

\* titles of the scripts: one whose slug is no intermediate's name, ...
DefaultTitles == { << "M", "y", " ", "S", "h", "o", "r", "t" >> }
\* ... and titles that slugify to "combined" and to "clip-1"
Titles ==
    DefaultTitles \cup { << "C", "o", "m", "b", "i", "n", "e", "d" >>,
                         << "C", "l", "i", "p", " ", "1", "!" >> }

(* ------------------------------ paths ---------------------------------- *)
\* a file of the job: its name and its extension; all the video files are
\* in the one directory dirs['video']
Mp4(name) == << name, "mp4" >>
NoPath == << <<>>, "" >>
NarrationPath == << << "n", "a", "r", "r", "a", "t", "i", "o", "n" >>, "mp3" >>
MusicPath == << << "m", "u", "s", "i", "c" >>, "mp3" >>
ClipPath(scene_num) == Mp4(<< "c", "l", "i", "p", "-" >> \o Str(scene_num))
combined_path == Mp4(<< "c", "o", "m", "b", "i", "n", "e", "d" >>)
audio_path == Mp4(<< "w", "i", "t", "h", "-", "a", "u", "d", "i", "o" >>)
srt_path == << << "s", "u", "b", "t", "i", "t", "l", "e", "s" >>, "srt" >>
ass_path == << << "s", "u", "b", "t", "i", "t", "l", "e", "s" >>, "ass" >>

\* os.path.join(dirs['video'], f"{slug}.mp4")
final_path == Mp4(slug)

(* ---------------------------- arithmetic ------------------------------- *)
Min(a, b) == IF a <= b THEN a ELSE b

RECURSIVE SumSeq(_)
SumSeq(s) == IF s = <<>> THEN 0 ELSE Head(s) + SumSeq(Tail(s))

\* s.get("duration", 5)
ScriptedDuration(scene) ==
    IF scene.duration = Missing THEN DefaultDuration ELSE scene.duration

\* variant: a scene without a duration adds nothing to the scripted sum
TotalScriptedNoDefault(scenes) ==
    SumSeq([k \in 1..Len(scenes) |->
              IF scenes[k].duration = Missing THEN 0 ELSE scenes[k].duration])

\* sum(s.get("duration", 5) for s in scenes)
TotalScripted(scenes) ==
    SumSeq([k \in 1..Len(scenes) |-> ScriptedDuration(scenes[k])])

\* variant: the division is not guarded against a scripted sum of 0
ScaleFactorUnguarded(audio, total) == [num |-> audio, den |-> FPS * total]

\* audio_duration / total_scripted if total_scripted > 0 else 1.0
\* audio is in frames, so audio seconds / total = audio / (FPS * total)
ScaleFactor(audio, total) ==
    IF total > 0 THEN [num |-> audio, den |-> FPS * total]
                 ELSE [num |-> 1, den |-> 1]

\* scene.get("duration", 5) * scale_factor, as a fraction of seconds
EffectiveDuration(scene, scale) ==
    [num |-> ScriptedDuration(scene) * scale.num, den |-> scale.den]

\* int(duration * 25)
KenBurnsFrames(duration) == (duration.num * FPS) \div duration.den

\* frames in a clip cut by "-t duration" at 25 fps: every frame that starts
\* before the duration is over, i.e. the duration rounded up to a frame
ClipFramesFor(duration) ==
    (duration.num * FPS + duration.den - 1) \div duration.den

(* ----------------------------- captions -------------------------------- *)
\* A caption entry is [text, start, end]; start and end are the float
\* seconds handed to format_srt_time / format_ass_time, kept as fractions.
\* The soft wrap of generate_ass changes the text of an entry only and is
\* left out.
DefaultWordsPerChunk == 3

\* .strip(), for blanks
RECURSIVE Strip(_)
Strip(text) ==
    IF text = <<>> THEN <<>>
    ELSE IF Head(text) = " " THEN Strip(Tail(text))
    ELSE IF text[Len(text)] = " "
         THEN Strip(SubSeq(text, 1, Len(text) - 1))
    ELSE text

\* variant: a scene without narration does not advance the running offset
AdvanceEmptyStuck(current_time, duration) == current_time

\* current_time += scene.get("duration", 5) * scale_factor
AdvanceEmpty(current_time, duration) == current_time + duration

\* variant: the running offset stays at the start of the caption just made
AdvanceNarratedStuck(current_time, end) == current_time

\* current_time = end
AdvanceNarrated(current_time, end) == end

\* the scene loop of generate_srt and of generate_ass, from scene k on;
\* current_time counts units of 1/scale.den seconds
RECURSIVE SceneEntries(_, _, _, _)
SceneEntries(scene_list, scale, k, current_time) ==
    IF k > Len(scene_list) THEN <<>>
    ELSE LET narration_text == Strip(scene_list[k].narration)
             duration == ScriptedDuration(scene_list[k]) * scale.num
             end == current_time + duration
         IN IF narration_text = <<>>
            THEN SceneEntries(scene_list, scale, k + 1,
                              AdvanceEmpty(current_time, duration))
            ELSE << [text |-> narration_text,
                     start |-> [num |-> current_time, den |-> scale.den],
                     end |-> [num |-> end, den |-> scale.den]] >>
                 \o SceneEntries(scene_list, scale, k + 1,
                                 AdvanceNarrated(current_time, end))

generate_srt(scene_list, scale) == SceneEntries(scene_list, scale, 1, 0)
generate_ass(scene_list, scale) == SceneEntries(scene_list, scale, 1, 0)

\* variant: a chunk ends where its first word ends
ChunkEndFirstWord(chunk_words) ==
    [num |-> chunk_words[1].end, den |-> FPS]

\* chunk_words[-1]["end"]; word times are counted in 1/25 s
ChunkEnd(chunk_words) ==
    [num |-> chunk_words[Len(chunk_words)].end, den |-> FPS]

\* for i in range(0, len(word_timestamps), words_per_chunk): ...
\* " ".join(...) is kept as the sequence of the chunk's words
RECURSIVE WordChunks(_, _, _)
WordChunks(word_timestamps, words_per_chunk, at) ==
    IF at >= Len(word_timestamps) THEN <<>>
    ELSE LET chunk_words ==
                 SubSeq(word_timestamps, at + 1,
                        Min(at + words_per_chunk, Len(word_timestamps)))
         IN << [text |-> [w \in 1..Len(chunk_words) |-> chunk_words[w].word],
                start |-> [num |-> chunk_words[1].start, den |-> FPS],
                end |-> ChunkEnd(chunk_words)] >>
            \o WordChunks(word_timestamps, words_per_chunk,
                          at + words_per_chunk)

generate_ass_word_synced(word_timestamps, words_per_chunk) ==
    WordChunks(word_timestamps, words_per_chunk, 0)

(* ----------------- inputs of the caption generators ------------------- *)
WordNames == << "the", "quick", "fox", "jumps", "over" >>

\* the word timestamps of n = Len(lengths) words said one after the other:
\* word k starts gaps[k] after the end of word k-1 and lasts lengths[k]
WordsFrom(lengths, gaps) ==
    [k \in 1..Len(lengths) |->
        LET start == SumSeq([j \in 1..(k - 1) |-> gaps[j] + lengths[j]])
                        + gaps[k]
        IN [word |-> WordNames[((k - 1) % Len(WordNames)) + 1],
            start |-> start, end |-> start + lengths[k]]]

CaptionWordLists ==
    UNION { { WordsFrom(lengths, gaps) :
                 lengths \in [1..n -> {5, 7}], gaps \in [1..n -> {0, 3}] }
            : n \in 0..MaxWords }

\* image scenes with every kind of narration text
CaptionScenes ==
    UNION { ScenesOf(n, {"web"}, ScriptedDurations, Narrations)
               \cup ScenesOf(n, {"web"}, {0}, Narrations)
            : n \in 0..MaxScenes }

(* --------------------------- decisions --------------------------------- *)
\* not (not narration_path or not os.path.exists(narration_path))
NarrationFound(path, exists) == path # NoPath /\ exists

\* variant: --no-music is not consulted
HasMusicIgnoringFlag(path, exists, arg_no_music) == path # NoPath /\ exists

\* music_path and os.path.exists(music_path) and not args.no_music
HasMusic(path, exists, arg_no_music) ==
    path # NoPath /\ exists /\ ~arg_no_music

\* CLI flags always win: --no-subtitles overrides script.json
EnableSubtitles(arg_no_subtitles, arg_subtitles, script) ==
    IF arg_no_subtitles THEN FALSE
    ELSE IF arg_subtitles THEN TRUE
    ELSE script.subtitles

\* variant: a video scene without its clip is skipped, image or not
StrategyNoFallback(visual_type, video_exists, image_exists) ==
    IF visual_type = "video"
    THEN IF video_exists THEN "normalize" ELSE "skip"
    ELSE IF image_exists THEN "ken_burns" ELSE "skip"

\* which renderer a scene gets: "normalize", "ken_burns" or "skip"
Strategy(visual_type, video_exists, image_exists) ==
    IF visual_type = "video"
    THEN IF video_exists THEN "normalize"
         ELSE IF image_exists THEN "ken_burns" ELSE "skip"
    ELSE IF image_exists THEN "ken_burns" ELSE "skip"

\* variants: a non-zero return code is ignored
ProbeNeverRaises(returncode_ok) == FALSE
ConcatNeverRaises(returncode_ok) == FALSE

\* if result.returncode != 0: raise RuntimeError(...)
ProbeRaises(returncode_ok) == ~returncode_ok
ConcatRaises(returncode_ok) == ~returncode_ok
MixRaises(returncode_ok) == ~returncode_ok
BurnRaises(returncode_ok) == ~returncode_ok

\* variant: the scene loop has no try/except
SceneErrorPropagates == FALSE

\* try: ... except Exception as e: print(...)   (the scene loop goes on)
SceneErrorCaught == TRUE

\* variant: a new clip is put at the head of the list
PrependClip(clips, clip_path) == << clip_path >> \o clips

\* temp_clips.append(clip_path)
AppendClip(clips, clip_path) == Append(clips, clip_path)

\* variant: the empty clip list is not checked
NoClipsUnchecked(clips) == FALSE

\* if not temp_clips
NoClips(clips) == clips = <<>>

\* variant: the silent video is burned instead of the mixed one
BurnInputSilent == combined_path

\* the video handed to burn_subtitles
BurnInput == audio_path

\* where the mixer writes: with-audio.mp4, or straight to <slug>.mp4
MixOutput(eng) == IF eng = "content-to-short" THEN audio_path ELSE final_path

\* _KB_DIRECTIONS
KB_DIRECTIONS == << "zoom-in-center", "zoom-out-center", "pan-left-right",
                    "pan-top-bottom" >>

\* the zoompan expression of create_ken_burns_clip: content-to-short takes
\* _KB_DIRECTIONS[scene_index % len(_KB_DIRECTIONS)], short-video-gen has
\* the one zoom-in expression and no scene_index parameter
Direction(eng, scene_index) ==
    IF eng = "content-to-short"
    THEN KB_DIRECTIONS[(scene_index % Len(KB_DIRECTIONS)) + 1]
    ELSE "zoom-in-center"

\* variant: the captions are generated and burned whatever the setting
AfterMixAlwaysBurn(eng, subtitles) ==
    IF eng = "content-to-short" THEN "captions" ELSE "final_probe"

\* variant: with subtitles off the mixed file is left at with-audio.mp4
AfterMixNoMove(eng, subtitles) ==
    IF eng = "content-to-short" /\ subtitles THEN "captions"
    ELSE "final_probe"

\* if enable_subtitles: ... burn_subtitles ... else: shutil.move(...)
\* (short-video-gen has neither: its mixer wrote <slug>.mp4 itself)
AfterMix(eng, subtitles) ==
    IF eng = "content-to-short"
    THEN IF subtitles THEN "captions" ELSE "move"
    ELSE "final_probe"

\* -shortest (and amix duration=shortest when music is mixed in)
MixedFrames(video, narr, mus, with_music) ==
    IF with_music THEN Min(video, Min(narr, mus)) ELSE Min(video, narr)

(* ----------------------------- records --------------------------------- *)
NoScale == [num |-> 0, den |-> 0]
NoAttempt == [index |-> 0, visual_type |-> "", video_exists |-> FALSE,
              image_exists |-> FALSE, strategy |-> "", direction |-> "",
              outcome |-> ""]
NoFiles == [p \in {} |-> 0]
\* no second process in the output directory
NoJob == [pc |-> "idle", i |-> 0, temp_clips |-> <<>>]

\* one invocation of a stage: its input, its output and whether it succeeded
Call(op, in, out, ok) ==
    [op |-> op, in |-> in, out |-> out, ok |-> ok, scale |-> NoScale,
     words_per_chunk |-> 0]
CaptionCall(op, out, scale) ==
    [op |-> op, in |-> NoPath, out |-> out, ok |-> TRUE, scale |-> scale,
     words_per_chunk |-> 0]
WordSyncedCall(out, words_per_chunk) ==
    [op |-> "generate_ass_word_synced", in |-> NoPath, out |-> out,
     ok |-> TRUE, scale |-> NoScale, words_per_chunk |-> words_per_chunk]
Media(frames, audio, by) == [frames |-> frames, audio |-> audio, by |-> by]
Captions(entries, by) ==
    [frames |-> 0, audio |-> "none", by |-> by, entries |-> entries]

Remove(fs, paths) == [p \in (DOMAIN fs) \ paths |-> fs[p]]
WriteFile(fs, path, content) ==
    [p \in (DOMAIN fs) \cup {path} |-> IF p = path THEN content ELSE fs[p]]

\* variant: the scenes are saved with their scaled durations
SavedScriptScaled(script, path, duration) ==
    [script EXCEPT
        !.outputVideo = path, !.actualDuration = duration,
        !.scenes = [k \in 1..Len(script.scenes) |->
                       [script.scenes[k] EXCEPT !.duration =
                           EffectiveDuration(script.scenes[k],
                                             scale_factor).num]]]

\* variant: the narration's length is recorded as the actual duration
SavedScriptNarration(script, path, duration) ==
    [script EXCEPT !.outputVideo = path, !.actualDuration = audio_duration]

\* script_data["outputVideo"] = final_path
\* script_data["actualDuration"] = final_duration
SavedScript(script, path, duration) ==
    [script EXCEPT !.outputVideo = path, !.actualDuration = duration]

Scripts ==
    [title : DefaultTitles, scenes : SceneLists,
     audioPath : {NoPath, NarrationPath}, musicPath : {NoPath, MusicPath},
     subtitles : BOOLEAN, wordTimestamps : WordLists,
     outputVideo : {NoPath}, actualDuration : {0}]

(* ------------------------------- Init ---------------------------------- *)
InitOf(scripts) ==
    /\ engine \in Engines
    /\ script_data \in scripts
    \* slug = slugify(script_data.get("title", "short")): the title is never
    \* reassigned, so the slug is the same wherever main() computes it
    /\ slug = slugify(script_data.title)
    \* short-video-gen reads neither subtitles nor wordTimestamps
    /\ engine = "short-video-gen" =>
           script_data.subtitles = FALSE /\ script_data.wordTimestamps = <<>>
    /\ no_music = FALSE
    /\ pc = "start"
    /\ i = 0
    /\ narration = "unchecked"
    /\ music = "unchecked"
    /\ has_music = FALSE
    /\ enable_subtitles = FALSE
    /\ audio_duration = 0
    /\ scale_factor = NoScale
    /\ temp_clips = <<>>
    /\ attempt = NoAttempt
    /\ files = NoFiles
    /\ calls = <<>>
    /\ failure = "none"
    /\ exit_code = <<>>
    /\ final_duration = 0
    /\ writes = <<>>
    /\ other = NoJob

\* the runs on scripts with the default title
Init == InitOf(Scripts)

\* the runs on scripts of every title: image scenes of 2 s, narration set,
\* no word timestamps
TitledScripts ==
    { sc \in [title : Titles,
              scenes : UNION { ScenesWith(n, {2}) : n \in 1..MaxScenes },
              audioPath : {NarrationPath}, musicPath : {NoPath, MusicPath},
              subtitles : BOOLEAN, wordTimestamps : {<<>>},
              outputVideo : {NoPath}, actualDuration : {0}] :
          \A k \in 1..Len(sc.scenes) : sc.scenes[k].visualType = "web" }
InitTitles == InitOf(TitledScripts)

\* a failing stage that starts over instead of leaving main()
AbortRetry(stage) ==
    /\ pc' = pc
    /\ failure' = stage
    /\ exit_code' = exit_code

\* sys.exit(1), or an exception leaving main()
Abort(stage) ==
    /\ pc' = "failed"
    /\ failure' = stage
    /\ exit_code' = <<1>>

(* ------------------------------ actions -------------------------------- *)
\* check_ffmpeg, load script, scenes check, flags, narration and music paths
Preflight ==
    /\ pc = "start"
    /\ \E ffmpeg_ok \in BOOLEAN :
       IF ~ffmpeg_ok
       THEN /\ Abort("ffmpeg_missing")
            /\ UNCHANGED <<enable_subtitles, narration, music, no_music,
                           has_music>>
       ELSE IF script_data.scenes = <<>>
       THEN /\ Abort("no_scenes")
            /\ UNCHANGED <<enable_subtitles, narration, music, no_music,
                           has_music>>
       ELSE
         /\ \E arg_no_subtitles \in BOOLEAN, arg_subtitles \in BOOLEAN :
              enable_subtitles' =
                 IF engine = "content-to-short"
                 THEN EnableSubtitles(arg_no_subtitles, arg_subtitles,
                                      script_data)
                 ELSE FALSE
         /\ \E narration_exists \in BOOLEAN :
            /\ narration' = IF script_data.audioPath = NoPath THEN "absent"
                            ELSE IF narration_exists THEN "found"
                            ELSE "missing"
            /\ IF ~NarrationFound(script_data.audioPath, narration_exists)
               THEN /\ Abort("narration_not_found")
                    /\ UNCHANGED <<music, no_music, has_music>>
               ELSE \E music_exists \in BOOLEAN, arg_no_music \in BOOLEAN :
                    /\ no_music' = arg_no_music
                    /\ music' = IF script_data.musicPath = NoPath
                                THEN "absent"
                                ELSE IF music_exists THEN "present"
                                ELSE "missing"
                    /\ has_music' = HasMusic(script_data.musicPath,
                                             music_exists, arg_no_music)
                    /\ pc' = "probe_narration"
                    /\ UNCHANGED <<failure, exit_code>>
    /\ UNCHANGED <<other, engine, script_data, slug, i, audio_duration,
                   scale_factor, temp_clips, attempt, files, calls,
                   final_duration, writes>>

\* audio_duration = get_media_duration(narration_path)
ProbeNarration ==
    /\ pc = "probe_narration"
    /\ \E returncode_ok \in BOOLEAN :
       /\ returncode_ok => narration = "found"
       /\ calls' = Append(calls, Call("probe_narration",
                              script_data.audioPath, NoPath, returncode_ok))
       /\ narration' = IF returncode_ok THEN "ok"
                       ELSE IF narration = "found" THEN "unprobeable"
                       ELSE narration
       /\ IF ProbeRaises(returncode_ok)
          THEN /\ Abort("probe_narration")
               /\ UNCHANGED <<audio_duration, music, no_music>>
          ELSE /\ \E a \in NarrationFrames : audio_duration' = a
               \* args.no_music and the existence of the music file were
               \* folded into has_music and are not read again
               /\ music' = "unchecked"
               /\ no_music' = FALSE
               /\ pc' = "probe_music"
               /\ UNCHANGED <<failure, exit_code>>
    /\ UNCHANGED <<other, engine, script_data, slug, i, has_music,
                   enable_subtitles, scale_factor, temp_clips, attempt,
                   files, final_duration, writes>>

\* if has_music: get_media_duration(music_path); then the scale factor
ProbeMusicAndScale ==
    /\ pc = "probe_music"
    /\ \E returncode_ok \in BOOLEAN :
       IF has_music /\ ProbeRaises(returncode_ok)
       THEN /\ Abort("probe_music")
            /\ calls' = Append(calls, Call("probe_music",
                              script_data.musicPath, NoPath, returncode_ok))
            /\ UNCHANGED <<scale_factor, i>>
       ELSE /\ calls' = IF has_music
                        THEN Append(calls, Call("probe_music",
                               script_data.musicPath, NoPath, returncode_ok))
                        ELSE calls
            /\ scale_factor' = ScaleFactor(audio_duration,
                                           TotalScripted(script_data.scenes))
            /\ i' = 1
            /\ pc' = "render"
            /\ UNCHANGED <<failure, exit_code>>
    /\ UNCHANGED <<other, engine, script_data, slug, no_music, narration,
                   music, has_music, enable_subtitles, audio_duration,
                   temp_clips, attempt, files, final_duration, writes>>

\* one iteration of "for i, scene in enumerate(scenes)"
RenderScene ==
    /\ pc = "render"
    /\ i <= Len(script_data.scenes)
    /\ LET scene == script_data.scenes[i]
           duration == EffectiveDuration(scene, scale_factor)
           clip_path == ClipPath(scene.sceneNumber)
       IN \E video_exists \in BOOLEAN, image_exists \in BOOLEAN,
             returncode_ok \in BOOLEAN :
          LET strategy == Strategy(scene.visualType, video_exists,
                                   image_exists)
              tried == [index |-> i, visual_type |-> scene.visualType,
                        video_exists |-> video_exists,
                        image_exists |-> image_exists,
                        strategy |-> strategy,
                        \* enumerate() counts from 0
                        direction |-> IF strategy = "ken_burns"
                                      THEN Direction(engine, i - 1) ELSE "",
                        outcome |-> ""]
          IN IF strategy = "skip"
             THEN /\ attempt' = [tried EXCEPT !.outcome = "skipped"]
                  /\ i' = i + 1
                  /\ UNCHANGED <<pc, temp_clips, files, failure, exit_code>>
             ELSE IF ~returncode_ok
             THEN /\ attempt' = [tried EXCEPT !.outcome = "error"]
                  /\ IF SceneErrorCaught
                     THEN /\ i' = i + 1
                          /\ UNCHANGED <<pc, failure, exit_code>>
                     ELSE /\ Abort("render")
                          /\ UNCHANGED i
                  /\ UNCHANGED <<temp_clips, files>>
             ELSE /\ attempt' = [tried EXCEPT !.outcome = "clip"]
                  /\ \E frames \in IF strategy = "normalize"
                                   THEN NativeClipFrames
                                   ELSE {ClipFramesFor(duration)} :
                       files' = WriteFile(files, clip_path,
                                          Media(frames, "none", strategy))
                  /\ temp_clips' = AppendClip(temp_clips, clip_path)
                  /\ i' = i + 1
                  /\ UNCHANGED <<pc, failure, exit_code>>
    /\ calls' = Append(calls, Call("render_scene", NoPath,
                            ClipPath(script_data.scenes[i].sceneNumber),
                            attempt'.outcome = "clip"))
    /\ UNCHANGED <<other, engine, script_data, slug, no_music, narration,
                   music, has_music, enable_subtitles, audio_duration,
                   scale_factor, final_duration, writes>>

\* if not temp_clips: print("Error: No clips created"); sys.exit(1)
CheckClips ==
    /\ pc = "render"
    /\ i > Len(script_data.scenes)
    /\ IF NoClips(temp_clips)
       THEN Abort("no_clips")
       ELSE /\ pc' = "concat"
            /\ UNCHANGED <<failure, exit_code>>
    /\ attempt' = NoAttempt      \* the loop's locals are no longer read
    /\ UNCHANGED <<other, engine, script_data, slug, no_music, i, narration,
                   music, has_music, enable_subtitles, audio_duration,
                   scale_factor, temp_clips, files, calls, final_duration,
                   writes>>

\* ffmpeg, ffprobe and shutil.move fail on an input file that is not there
Present(fs, paths) == paths \subseteq DOMAIN fs
ToolOutcomes(fs, inputs) == IF Present(fs, inputs) THEN BOOLEAN ELSE {FALSE}

ClipFrames(fs, clips) ==
    SumSeq([k \in 1..Len(clips) |-> fs[clips[k]].frames])

\* concatenate_videos(temp_clips, combined_path)
Concatenate ==
    /\ pc = "concat"
    /\ \E returncode_ok \in ToolOutcomes(files,
                             {temp_clips[k] : k \in 1..Len(temp_clips)}) :
       /\ calls' = Append(calls, Call("concatenate_videos", NoPath,
                                      combined_path, returncode_ok))
       /\ IF ConcatRaises(returncode_ok)
          THEN /\ Abort("concat")
               /\ UNCHANGED files
          ELSE /\ files' = WriteFile(files, combined_path,
                             Media(ClipFrames(files, temp_clips), "none",
                                   "concatenate_videos"))
               /\ pc' = "mix"
               /\ UNCHANGED <<failure, exit_code>>
    /\ UNCHANGED <<other, engine, script_data, slug, no_music, i, narration,
                   music, has_music, enable_subtitles, audio_duration,
                   scale_factor, temp_clips, attempt, final_duration,
                   writes>>

\* mix_audio_tracks(...) if has_music else add_narration_only(...)
MixAudio ==
    /\ pc = "mix"
    /\ LET op == IF has_music THEN "mix_audio_tracks"
                 ELSE "add_narration_only"
           out == MixOutput(engine)
       \* ffmpeg refuses an output that is one of its inputs
       IN \E returncode_ok \in IF out = combined_path THEN {FALSE}
                                ELSE ToolOutcomes(files, {combined_path}),
             music_frames \in MusicFrames :
          /\ calls' = Append(calls, Call(op, combined_path, out,
                                         returncode_ok))
          /\ IF MixRaises(returncode_ok)
                THEN /\ Abort("mix")
                     /\ UNCHANGED files
                ELSE /\ files' = WriteFile(files, out,
                          Media(MixedFrames(files[combined_path].frames,
                                            audio_duration, music_frames,
                                            has_music),
                                IF has_music THEN "narration+music"
                                ELSE "narration",
                                op))
                     /\ pc' = AfterMix(engine, enable_subtitles)
                     /\ UNCHANGED <<failure, exit_code>>
    /\ UNCHANGED <<other, engine, script_data, slug, no_music, i, narration,
                   music, has_music, enable_subtitles, audio_duration,
                   scale_factor, temp_clips, attempt, final_duration,
                   writes>>

\* generate_ass_word_synced / generate_ass, then generate_srt
GenerateCaptions ==
    /\ pc = "captions"
    /\ LET word_timestamps == script_data.wordTimestamps
           ass_call == IF word_timestamps # <<>>
                       THEN WordSyncedCall(ass_path, DefaultWordsPerChunk)
                       ELSE CaptionCall("generate_ass", ass_path,
                                        scale_factor)
           ass_file == IF word_timestamps # <<>>
                       THEN Captions(generate_ass_word_synced(
                                         word_timestamps,
                                         DefaultWordsPerChunk),
                                     "generate_ass_word_synced")
                       ELSE Captions(generate_ass(script_data.scenes,
                                                  scale_factor),
                                     "generate_ass")
       IN /\ calls' = calls \o << ass_call,
                          CaptionCall("generate_srt", srt_path, scale_factor) >>
          /\ files' = WriteFile(WriteFile(files, ass_path, ass_file),
                                srt_path,
                                Captions(generate_srt(script_data.scenes,
                                                      scale_factor),
                                         "generate_srt"))
    /\ pc' = "burn"
    /\ UNCHANGED <<other, engine, script_data, slug, no_music, i, narration,
                   music, has_music, enable_subtitles, audio_duration,
                   scale_factor, temp_clips, attempt, failure, exit_code,
                   final_duration, writes>>

\* burn_subtitles(audio_path, ass_path, final_path); os.remove(audio_path)
BurnSubtitles ==
    /\ pc = "burn"
    /\ \E returncode_ok \in ToolOutcomes(files, {BurnInput, ass_path}) :
       /\ calls' = Append(calls, Call("burn_subtitles", BurnInput, final_path,
                                      returncode_ok))
       /\ IF BurnRaises(returncode_ok)
          THEN /\ Abort("burn")
               /\ UNCHANGED files
          ELSE /\ files' = Remove(WriteFile(files, final_path,
                                     Media(files[BurnInput].frames,
                                           files[BurnInput].audio,
                                           "burn_subtitles")),
                                  {audio_path})
               /\ pc' = "final_probe"
               /\ UNCHANGED <<failure, exit_code>>
    /\ UNCHANGED <<other, engine, script_data, slug, no_music, i, narration,
                   music, has_music, enable_subtitles, audio_duration,
                   scale_factor, temp_clips, attempt, final_duration,
                   writes>>

\* shutil.move(audio_path, final_path)
MoveFinal ==
    /\ pc = "move"
    /\ LET moved == Present(files, {audio_path})
       IN /\ calls' = Append(calls, Call("move", audio_path, final_path,
                                         moved))
          /\ IF moved
             THEN /\ files' = Remove(WriteFile(files, final_path,
                                               files[audio_path]),
                                     {audio_path})
                  /\ pc' = "final_probe"
                  /\ UNCHANGED <<failure, exit_code>>
             ELSE /\ Abort("move")       \* FileNotFoundError
                  /\ UNCHANGED files
    /\ UNCHANGED <<other, engine, script_data, slug, no_music, i, narration,
                   music, has_music, enable_subtitles, audio_duration,
                   scale_factor, temp_clips, attempt, final_duration,
                   writes>>

\* final_duration = get_media_duration(final_path)
FinalProbe ==
    /\ pc = "final_probe"
    /\ \E returncode_ok \in ToolOutcomes(files, {final_path}) :
       /\ calls' = Append(calls, Call("probe_final", final_path, NoPath,
                                      returncode_ok))
       /\ IF ProbeRaises(returncode_ok)
          THEN /\ Abort("probe_final")
               /\ UNCHANGED final_duration
          ELSE /\ final_duration' = files[final_path].frames
               /\ pc' = "cleanup"
               /\ UNCHANGED <<failure, exit_code>>
    /\ UNCHANGED <<other, engine, script_data, slug, no_music, i, narration,
                   music, has_music, enable_subtitles, audio_duration,
                   scale_factor, temp_clips, attempt, files, writes>>

\* remove the clips and combined.mp4, then save_script_json
CleanupAndSave ==
    /\ pc = "cleanup"
    /\ files' = Remove(files, {temp_clips[k] : k \in 1..Len(temp_clips)}
                              \cup {combined_path})
    /\ calls' = calls \o << Call("cleanup", NoPath, NoPath, TRUE),
                            Call("save_script_json", NoPath, NoPath, TRUE) >>
    /\ writes' = Append(writes, SavedScript(script_data, final_path,
                                            final_duration))
    /\ pc' = "done"
    /\ exit_code' = <<0>>
    /\ UNCHANGED <<other, engine, script_data, slug, no_music, i, narration,
                   music, has_music, enable_subtitles, audio_duration,
                   scale_factor, temp_clips, attempt, failure,
                   final_duration>>

(* ---------------- a second job in the same output directory ------------ *)
\* The second process runs the same main() on another script of the same
\* INPUT directory: get_output_dir gives both the same dirs['video']. Its
\* script has the same scene numbers, the title "Other", no music, subtitles
\* off, a narration that makes every clip 3 s long; its tools do not fail.
OtherJob == "other_job"
OtherTitle == <<"O", "t", "h", "e", "r">>
OtherClipFrames == 75
OtherNarrationFrames == 500
other_final_path == Mp4(slugify(OtherTitle))

\* variant: every job keeps its clips under a name of its own
JobClipPathNamespaced(job, scene_num) ==
    Mp4(<<"j", "o", "b", job, "-", "c", "l", "i", "p", "-">> \o Str(scene_num))

\* clip_path = os.path.join(dirs['video'], f"clip-{scene_num}.mp4"): nothing
\* of the job (pid, script name, temporary directory) is part of the name
JobClipPath(job, scene_num) == ClipPath(scene_num)

\* one iteration of the second job's scene loop
OtherRenderScene ==
    /\ other.pc = "render"
    /\ other.i <= Len(script_data.scenes)
    /\ LET clip_path == JobClipPath("2",
                            script_data.scenes[other.i].sceneNumber)
       IN /\ files' = WriteFile(files, clip_path,
                                Media(OtherClipFrames, "none", OtherJob))
          /\ other' = [other EXCEPT !.i = other.i + 1,
                           !.temp_clips = AppendClip(other.temp_clips,
                                                     clip_path)]
    /\ UNCHANGED <<engine, script_data, slug, no_music, pc, i, narration,
                   music, has_music, enable_subtitles, audio_duration,
                   scale_factor, temp_clips, attempt, calls, failure,
                   exit_code, final_duration, writes>>

\* the second job's concatenate_videos(temp_clips, combined_path)
OtherConcatenate ==
    /\ other.pc = "render"
    /\ other.i > Len(script_data.scenes)
    /\ IF Present(files, {other.temp_clips[k] :
                              k \in 1..Len(other.temp_clips)})
       THEN /\ files' = WriteFile(files, combined_path,
                            Media(ClipFrames(files, other.temp_clips), "none",
                                  OtherJob))
            /\ other' = [other EXCEPT !.pc = "mix"]
       ELSE /\ other' = [other EXCEPT !.pc = "failed"]
            /\ UNCHANGED files
    /\ UNCHANGED <<engine, script_data, slug, no_music, pc, i, narration,
                   music, has_music, enable_subtitles, audio_duration,
                   scale_factor, temp_clips, attempt, calls, failure,
                   exit_code, final_duration, writes>>

\* the second job's add_narration_only(combined_path, narration_path, ...)
OtherMixAudio ==
    /\ other.pc = "mix"
    /\ LET out == IF engine = "content-to-short" THEN audio_path
                  ELSE other_final_path
       IN IF Present(files, {combined_path})
          THEN /\ files' = WriteFile(files, out,
                     Media(MixedFrames(files[combined_path].frames,
                                       OtherNarrationFrames, 0, FALSE),
                           "narration", OtherJob))
               /\ other' = [other EXCEPT !.pc = "finish"]
          ELSE /\ other' = [other EXCEPT !.pc = "failed"]
               /\ UNCHANGED files
    /\ UNCHANGED <<engine, script_data, slug, no_music, pc, i, narration,
                   music, has_music, enable_subtitles, audio_duration,
                   scale_factor, temp_clips, attempt, calls, failure,
                   exit_code, final_duration, writes>>

\* the second job's shutil.move (content-to-short), final probe and cleanup
OtherFinish ==
    /\ other.pc = "finish"
    /\ LET moved == IF engine = "content-to-short"
                    THEN IF Present(files, {audio_path})
                         THEN Remove(WriteFile(files, other_final_path,
                                               files[audio_path]),
                                     {audio_path})
                         ELSE files
                    ELSE files
       IN IF Present(moved, {other_final_path})
          THEN /\ files' = Remove(moved,
                               {other.temp_clips[k] :
                                   k \in 1..Len(other.temp_clips)}
                               \cup {combined_path})
               /\ other' = [other EXCEPT !.pc = "done"]
          ELSE /\ other' = [other EXCEPT !.pc = "failed"]
               /\ UNCHANGED files
    /\ UNCHANGED <<engine, script_data, slug, no_music, pc, i, narration,
                   music, has_music, enable_subtitles, audio_duration,
                   scale_factor, temp_clips, attempt, calls, failure,
                   exit_code, final_duration, writes>>

OtherNext ==
    \/ OtherRenderScene
    \/ OtherConcatenate
    \/ OtherMixAudio
    \/ OtherFinish

(* ------------- the caption generators as functions --------------------- *)
\* arguments of the caption generators: a scene list for the scene-level
\* ones, a word list for the word-synced one
CaptionScripts ==
    { sc \in [title : DefaultTitles, scenes : CaptionScenes,
              audioPath : {NarrationPath}, musicPath : {NoPath},
              subtitles : {TRUE}, wordTimestamps : CaptionWordLists,
              outputVideo : {NoPath}, actualDuration : {0}] :
          sc.scenes = <<>> \/ sc.wordTimestamps = <<>> }

InitCaptions ==
    /\ engine = "content-to-short"
    /\ script_data \in CaptionScripts
    /\ slug = slugify(script_data.title)
    /\ no_music = FALSE
    /\ pc = "generate"
    /\ i = 0
    /\ narration = "ok"
    /\ music = "unchecked"
    /\ has_music = FALSE
    /\ enable_subtitles = TRUE
    /\ audio_duration \in NarrationFrames
    /\ scale_factor = ScaleFactor(audio_duration,
                                  TotalScripted(script_data.scenes))
    /\ temp_clips = <<>>
    /\ attempt = NoAttempt
    /\ files = NoFiles
    /\ calls = <<>>
    /\ failure = "none"
    /\ exit_code = <<>>
    /\ final_duration = 0
    /\ writes = <<>>
    /\ other = NoJob

\* generate_srt(scenes, scale_factor, srt_path)
ApplyGenerateSrt ==
    /\ pc = "generate"
    /\ srt_path \notin DOMAIN files
    /\ files' = WriteFile(files, srt_path,
                          Captions(generate_srt(script_data.scenes,
                                                scale_factor),
                                   "generate_srt"))
    /\ calls' = Append(calls, CaptionCall("generate_srt", srt_path,
                                          scale_factor))
    /\ UNCHANGED <<other, engine, script_data, slug, no_music, pc, i,
                   narration, music, has_music, enable_subtitles,
                   audio_duration, scale_factor, temp_clips, attempt,
                   failure, exit_code, final_duration, writes>>

\* generate_ass(scenes, scale_factor, ass_path)
ApplyGenerateAss ==
    /\ pc = "generate"
    /\ ass_path \notin DOMAIN files
    /\ files' = WriteFile(files, ass_path,
                          Captions(generate_ass(script_data.scenes,
                                                scale_factor),
                                   "generate_ass"))
    /\ calls' = Append(calls, CaptionCall("generate_ass", ass_path,
                                          scale_factor))
    /\ UNCHANGED <<other, engine, script_data, slug, no_music, pc, i,
                   narration, music, has_music, enable_subtitles,
                   audio_duration, scale_factor, temp_clips, attempt,
                   failure, exit_code, final_duration, writes>>

\* generate_ass_word_synced(word_timestamps, ass_path, words_per_chunk)
ApplyWordSynced ==
    /\ pc = "generate"
    /\ ass_path \notin DOMAIN files
    /\ \E words_per_chunk \in 1..MaxChunk :
          /\ files' = WriteFile(files, ass_path,
                           Captions(generate_ass_word_synced(
                                        script_data.wordTimestamps,
                                        words_per_chunk),
                                    "generate_ass_word_synced"))
          /\ calls' = Append(calls, WordSyncedCall(ass_path,
                                                   words_per_chunk))
    /\ UNCHANGED <<other, engine, script_data, slug, no_music, pc, i,
                   narration, music, has_music, enable_subtitles,
                   audio_duration, scale_factor, temp_clips, attempt,
                   failure, exit_code, final_duration, writes>>

NextCaptions ==
    \/ ApplyGenerateSrt
    \/ ApplyGenerateAss
    \/ ApplyWordSynced

SpecCaptions == InitCaptions /\ [][NextCaptions]_vars

Next ==
    \/ Preflight
    \/ ProbeNarration
    \/ ProbeMusicAndScale
    \/ RenderScene
    \/ CheckClips
    \/ Concatenate
    \/ MixAudio
    \/ GenerateCaptions
    \/ BurnSubtitles
    \/ MoveFinal
    \/ FinalProbe
    \/ CleanupAndSave

Spec == Init /\ [][Next]_vars
SpecTitles == InitTitles /\ [][Next]_vars
\* two processes started on scripts of one INPUT directory: the operating
\* system interleaves their statements, nothing in main() waits for a lock
JobScripts == {sc \in TitledScripts : sc.title \in DefaultTitles}
InitJobs ==
    /\ engine \in Engines
    /\ script_data \in JobScripts
    /\ slug = slugify(script_data.title)
    /\ engine = "short-video-gen" => script_data.subtitles = FALSE
    /\ no_music = FALSE
    /\ pc = "start"
    /\ i = 0
    /\ narration = "unchecked"
    /\ music = "unchecked"
    /\ has_music = FALSE
    /\ enable_subtitles = FALSE
    /\ audio_duration = 0
    /\ scale_factor = NoScale
    /\ temp_clips = <<>>
    /\ attempt = NoAttempt
    /\ files = NoFiles
    /\ calls = <<>>
    /\ failure = "none"
    /\ exit_code = <<>>
    /\ final_duration = 0
    /\ writes = <<>>
    /\ other = [pc |-> "render", i |-> 1, temp_clips |-> <<>>]
NextJobs == Next \/ OtherNext
SpecJobs == InitJobs /\ [][NextJobs]_vars

\* main() is one sequential thread: once every subprocess.run has returned,
\* the interpreter goes on to the next statement
SpecLive == Init /\ [][Next]_vars /\ WF_vars(Next)

TypeOK ==
    /\ pc \in {"start", "probe_narration", "probe_music", "render", "concat",
               "mix", "captions", "burn", "move", "final_probe", "cleanup",
               "done", "failed", "generate"}
    /\ exit_code \in {<<>>, <<0>>, <<1>>}
    /\ Len(writes) <= 1

(* ======================= properties of the engine ====================== *)
scenes == script_data.scenes
NumScenes == Len(scenes)
Abs(x) == IF x < 0 THEN 0 - x ELSE x
Ops == {calls[k].op : k \in 1..Len(calls)}
CallsOf(op) == {k \in 1..Len(calls) : calls[k].op = op}
Mixers == {"mix_audio_tracks", "add_narration_only"}
CaptionOps == {"generate_ass", "generate_ass_word_synced", "generate_srt"}
TranscodeOps == {"render_scene", "concatenate_videos", "burn_subtitles"}
                    \cup Mixers
ScaleKnown == scale_factor # NoScale

\* C1: on every successful run the duration written back as actualDuration
\* is within one frame of the measured narration duration.
C1_FinalWithinOneFrame ==
    pc = "done" =>
        Abs(writes[1].actualDuration - audio_duration) <= 1

\* C2: when the scripted sum is positive, the effective scene durations
\* (missing duration read as 5) add up to the measured narration duration.
C2_EffectiveSumIsNarration ==
    (ScaleKnown /\ TotalScripted(scenes) > 0) =>
        SumSeq([k \in 1..NumScenes |->
                   EffectiveDuration(scenes[k], scale_factor).num]) * FPS
          = audio_duration * scale_factor.den

C2_Witness ==
    /\ pc = "done"
    /\ NumScenes >= 2
    /\ \E k \in 1..NumScenes : scenes[k].duration = Missing
    /\ \E k \in 1..NumScenes : scenes[k].duration = 2

\* C3: one scale factor, measured / scripted sum, or 1.0 when the sum is 0
\* (the job goes on); every scene is scaled by it, so ratios are preserved,
\* every Ken Burns clip is cut to its scaled duration, and the scene-level
\* caption generators receive the same factor.
C3_SingleScaleFactor ==
    ScaleKnown =>
      LET scripted(k) == IF scenes[k].duration = Missing
                         THEN DefaultDuration ELSE scenes[k].duration
          total == SumSeq([k \in 1..NumScenes |-> scripted(k)])
          eff(k) == EffectiveDuration(scenes[k], scale_factor)
          clip(k) == ClipPath(scenes[k].sceneNumber)
      IN /\ total > 0 =>
               scale_factor.num * FPS * total
                   = audio_duration * scale_factor.den
         /\ total = 0 =>
               /\ scale_factor.num = scale_factor.den
               /\ scale_factor.den # 0
         /\ \A a \in 1..NumScenes :
               /\ eff(a).num * scale_factor.den
                     = scripted(a) * scale_factor.num * eff(a).den
               /\ \A b \in (a + 1)..NumScenes :
                     eff(a).num * eff(b).den * scripted(b)
                         = eff(b).num * eff(a).den * scripted(a)
               /\ (clip(a) \in DOMAIN files
                      /\ files[clip(a)].by = "ken_burns")
                   => Abs(files[clip(a)].frames * scale_factor.den
                          - scripted(a) * scale_factor.num * FPS)
                        < scale_factor.den
         /\ \A c \in 1..Len(calls) :
               calls[c].op \in {"generate_ass", "generate_srt"}
                   => calls[c].scale = scale_factor

C3_Witness ==
    /\ pc = "burn"
    /\ "generate_ass" \in Ops
    /\ NumScenes >= 2
    /\ scenes[1].duration # scenes[2].duration
    /\ Len(temp_clips) = NumScenes

\* C4: inside the scene loop nothing ends the job: every iteration moves on
\* to the next scene, a skipped or failed scene leaves the clip list as it
\* was, and the loop is left for concatenation when there is a clip and for
\* the "no clips" abort only when there is none.
C4_SceneFailureIsolated ==
    [][ pc = "render" =>
          /\ i <= NumScenes =>
               /\ pc' = "render"
               /\ i' = i + 1
               /\ attempt'.index = i
               /\ attempt'.outcome \in {"skipped", "error"}
                     => temp_clips' = temp_clips
               /\ attempt'.outcome = "clip"
                     => temp_clips' = Append(temp_clips,
                                             ClipPath(scenes[i].sceneNumber))
          /\ i > NumScenes =>
               /\ temp_clips # <<>> => pc' = "concat"
               /\ temp_clips = <<>> => pc' = "failed" /\ failure' = "no_clips"
      ]_vars

C4_Witness ==
    /\ pc = "render"
    /\ i > NumScenes
    /\ attempt.outcome = "error"
    /\ temp_clips # <<>>

Rank(op) ==
    CASE op = "probe_narration" -> 1
      [] op = "probe_music" -> 2
      [] op = "render_scene" -> 3
      [] op = "concatenate_videos" -> 4
      [] op \in Mixers -> 5
      [] op \in {"generate_ass", "generate_ass_word_synced"} -> 6
      [] op = "generate_srt" -> 7
      [] op \in {"burn_subtitles", "move"} -> 8
      [] op = "probe_final" -> 9
      [] op = "cleanup" -> 10
      [] op = "save_script_json" -> 11

\* C5: the stages run in the fixed order probe, per-scene rendering in script
\* order, concatenation, audio mix, then (subtitles enabled only) captions
\* and burn-in; a stage starts only after the earlier ones are over, and
\* burn-in reads the file the mixer wrote.
C5_FixedStageOrder ==
    LET n == Len(calls)
        probes == IF n >= 2 /\ calls[2].op = "probe_music" THEN 2 ELSE 1
        last == IF n = 0 THEN 0 ELSE Rank(calls[n].op)
    IN /\ n >= 1 => calls[1].op = "probe_narration"
       /\ \A p \in 1..(n - 1) :
             /\ Rank(calls[p].op) <= Rank(calls[p + 1].op)
             /\ Rank(calls[p].op) = Rank(calls[p + 1].op)
                   => calls[p].op = "render_scene"
       /\ \A p \in 1..n :
             /\ calls[p].op = "render_scene" =>
                   /\ p - probes \in 1..NumScenes
                   /\ calls[p].out = ClipPath(scenes[p - probes].sceneNumber)
             /\ calls[p].op \in CaptionOps \cup {"burn_subtitles"}
                   => enable_subtitles
             /\ calls[p].op = "burn_subtitles" =>
                   /\ calls[p - 1].op = "generate_srt"
                   /\ calls[p - 2].op \in {"generate_ass",
                                           "generate_ass_word_synced"}
                   /\ calls[p - 3].op \in Mixers
                   /\ calls[p - 3].out = calls[p].in
       /\ last >= 4 =>
             /\ calls[probes + NumScenes].op = "render_scene"
             /\ calls[probes + NumScenes + 1].op = "concatenate_videos"
       /\ last >= 5 => calls[probes + NumScenes + 2].op \in Mixers
       /\ (pc = "done" /\ enable_subtitles) =>
             calls[probes + NumScenes + 5].op = "burn_subtitles"

C5_Witness ==
    /\ pc = "done"
    /\ enable_subtitles
    /\ NumScenes >= 2
    /\ "burn_subtitles" \in Ops

\* C6: with the narration path absent, the file missing or the file not
\* probeable, the job has failed with a non-zero exit before any render,
\* concatenation, mix or burn was invoked, and the script is not written.
C6_NarrationMandatory ==
    narration \in {"absent", "missing", "unprobeable"} =>
        /\ pc = "failed"
        /\ exit_code = <<1>>
        /\ Ops \cap TranscodeOps = {}
        /\ writes = <<>>

C6_Witness ==
    /\ narration = "unprobeable"
    /\ pc = "failed"
    /\ failure = "probe_narration"

\* C7: the narration+music mixer runs exactly when the script has a music
\* path, the file exists and --no-music is not given; otherwise the
\* narration-only muxer runs, the job does not fail over the music, and the
\* final audio is the narration alone.
C7_MixerSelection ==
    /\ music # "unchecked" =>
          has_music = (music = "present" /\ ~no_music)
    /\ "mix_audio_tracks" \in Ops => has_music
    /\ "add_narration_only" \in Ops => ~has_music
    /\ pc \in {"captions", "burn", "move", "final_probe", "cleanup", "done"}
          => Ops \cap Mixers # {}
    /\ ~has_music =>
          /\ "probe_music" \notin Ops
          /\ failure # "probe_music"
          /\ final_path \in DOMAIN files =>
                files[final_path].audio = "narration"

C7_Witness ==
    /\ pc = "done"
    /\ script_data.musicPath # NoPath
    /\ ~has_music
    /\ "add_narration_only" \in Ops
    /\ files[final_path].audio = "narration"

\* C8: a video scene whose clip exists is normalized; a video scene without
\* its clip but with its image gets Ken Burns and is not skipped; a scene
\* with no usable asset is skipped; a non-video scene gets Ken Burns iff its
\* image exists, whatever its videoPath.
C8_StrategySelection ==
    attempt.index > 0 =>
      LET video == attempt.visual_type = "video"
          clip == ClipPath(scenes[attempt.index].sceneNumber)
      IN /\ attempt.visual_type = scenes[attempt.index].visualType
         /\ (video /\ attempt.video_exists) => attempt.strategy = "normalize"
         /\ (video /\ ~attempt.video_exists /\ attempt.image_exists) =>
               attempt.strategy = "ken_burns" /\ attempt.outcome # "skipped"
         /\ (video /\ ~attempt.video_exists /\ ~attempt.image_exists) =>
               attempt.strategy = "skip"
         /\ ~video => attempt.strategy =
                        (IF attempt.image_exists THEN "ken_burns" ELSE "skip")
         /\ attempt.strategy = "skip" <=> attempt.outcome = "skipped"
         /\ attempt.outcome = "skipped" => clip \notin DOMAIN files
         /\ attempt.outcome = "clip" =>
               /\ clip \in DOMAIN files
               /\ files[clip].by = attempt.strategy
               /\ temp_clips[Len(temp_clips)] = clip

C8_Witness ==
    /\ attempt.index > 0
    /\ attempt.visual_type = "video"
    /\ ~attempt.video_exists
    /\ attempt.image_exists
    /\ attempt.strategy = "ken_burns"
    /\ attempt.outcome = "clip"

\* C9: when the scene loop ends without a clip, the job aborts with "No
\* clips created" and a non-zero exit; concatenation, mixing, captions and
\* burn-in are never invoked, nothing is at the final path, and the script
\* is not written.
C9_NoClipsAborts ==
    (i > NumScenes /\ pc # "render" /\ temp_clips = <<>>) =>
        /\ pc = "failed"
        /\ failure = "no_clips"
        /\ exit_code = <<1>>
        /\ Ops \subseteq {"probe_narration", "probe_music", "render_scene"}
        /\ final_path \notin DOMAIN files
        /\ writes = <<>>

C9_Witness ==
    /\ failure = "no_clips"
    /\ NumScenes >= 2
    /\ Cardinality(CallsOf("render_scene")) = NumScenes

StageOfFailure(f) ==
    CASE f = "probe_narration" -> {"probe_narration"}
      [] f = "probe_music" -> {"probe_music"}
      [] f = "concat" -> {"concatenate_videos"}
      [] f = "mix" -> Mixers
      [] f = "burn" -> {"burn_subtitles"}
      [] f = "probe_final" -> {"probe_final"}

\* C10: a failing narration probe, music probe, concatenation, mix, burn or
\* final probe ends the job: non-zero exit, the failed call is the last one
\* made and nothing can follow it, the intermediates are not cleaned up and
\* the script is not written.
C10_TimelineFailureFatal ==
    /\ \A c \in 1..Len(calls) :
          (calls[c].op # "render_scene" /\ ~calls[c].ok) =>
              /\ c = Len(calls)
              /\ pc = "failed"
              /\ calls[c].op \in StageOfFailure(failure)
    /\ (pc = "failed" /\ failure \in {"probe_narration", "probe_music",
                            "concat", "mix", "burn", "probe_final"}) =>
          /\ exit_code = <<1>>
          /\ ~calls[Len(calls)].ok
          /\ calls[Len(calls)].op \in StageOfFailure(failure)
          /\ ~ENABLED Next
          /\ "cleanup" \notin Ops
          /\ \A k \in 1..Len(temp_clips) : temp_clips[k] \in DOMAIN files
          /\ failure \in {"mix", "burn", "probe_final"}
                => combined_path \in DOMAIN files
          /\ writes = <<>>

C10_Witness ==
    /\ pc = "failed"
    /\ failure = "concat"
    /\ temp_clips # <<>>
    /\ ~calls[Len(calls)].ok

\* C11: with subtitles disabled neither caption generator nor the burn
\* stage is ever invoked and no caption file is written; the final video
\* appears by a move of the mixer's with-audio.mp4 that directly follows the
\* successful mix, it is that very file (same picture, same audio, still
\* the mixer's product), and nothing rewrites it afterwards.
C11_NoSubtitlesFinalIsMixerOutput ==
    [][ (pc # "start" /\ ~enable_subtitles) =>
          /\ Ops' \cap (CaptionOps \cup {"burn_subtitles"}) = {}
          /\ {srt_path, ass_path} \cap DOMAIN files' = {}
          /\ (final_path \in DOMAIN files /\ final_path \in DOMAIN files')
                => files'[final_path] = files[final_path]
          /\ (engine = "content-to-short" /\ final_path \notin DOMAIN files
                 /\ final_path \in DOMAIN files') =>
                /\ calls[Len(calls)].op \in Mixers
                /\ calls[Len(calls)].ok
                /\ calls[Len(calls)].out = audio_path
                /\ calls' = Append(calls, Call("move", audio_path,
                                               final_path, TRUE))
                /\ files[audio_path].by \in Mixers
                /\ files'[final_path] = files[audio_path]
                /\ audio_path \notin DOMAIN files'
      ]_vars

C11_Witness ==
    /\ engine = "content-to-short"
    /\ pc = "done"
    /\ script_data.subtitles
    /\ ~enable_subtitles
    /\ "move" \in Ops
    /\ files[final_path].by = "mix_audio_tracks"

\* C12: after every successful run, whatever the title and whichever scenes
\* rendered, no per-scene clip and no combined.mp4 is left, the final video
\* exists at the path recorded in outputVideo, and with subtitles enabled
\* the SRT and the ASS file exist.
C12_SuccessLeavesOnlyFinal ==
    pc = "done" =>
        /\ \A k \in 1..NumScenes :
              ClipPath(scenes[k].sceneNumber) \notin DOMAIN files
        /\ combined_path \notin DOMAIN files
        /\ writes[1].outputVideo \in DOMAIN files
        /\ enable_subtitles => {srt_path, ass_path} \subseteq DOMAIN files

\* C13: the script document is written at most once per run, never on a
\* run that failed, and only as the last act of a run in which every stage
\* call other than a scene render, the final probe included, succeeded; the
\* document written has outputVideo = the final path and actualDuration =
\* the probed length of the file at that path.
C13_ScriptWrittenOnceOnSuccess ==
    /\ Len(writes) <= 1
    /\ pc = "failed" => writes = <<>>
    /\ writes # <<>> =>
          /\ pc = "done"
          /\ exit_code = <<0>>
          /\ \A c \in 1..Len(calls) :
                calls[c].op # "render_scene" => calls[c].ok
          /\ calls[Len(calls)].op = "save_script_json"
          /\ calls[Len(calls) - 2].op = "probe_final"
          /\ calls[Len(calls) - 2].in = final_path
          /\ writes[1].outputVideo = final_path
          /\ final_path \in DOMAIN files
          /\ writes[1].actualDuration = files[final_path].frames
          /\ writes[1] = [script_data EXCEPT
                             !.outputVideo = writes[1].outputVideo,
                             !.actualDuration = writes[1].actualDuration]

C13_Witness ==
    /\ pc = "done"
    /\ Len(writes) = 1
    /\ writes[1].actualDuration # audio_duration
    /\ writes[1].actualDuration = files[final_path].frames
    /\ \E c \in 1..Len(calls) : ~calls[c].ok

\* C14: a run that failed over the narration, the clips, the concatenation,
\* the mix or the burn leaves nothing at <slug>.mp4, and <slug>.mp4 is only
\* ever the destination of the finalizing move, never the output of a
\* transcoding subprocess.
C14_CanonicalPathOnlyByFinalMove ==
    /\ (pc = "failed" /\ failure \in {"narration_not_found",
                            "probe_narration", "no_clips", "concat", "mix",
                            "burn"})
          => final_path \notin DOMAIN files
    /\ \A c \in 1..Len(calls) :
          calls[c].out = final_path => calls[c].op = "move"

SameInstant(a, b) == a.num * b.den = b.num * a.den

\* C15: in every run with subtitles enabled, with or without word
\* timestamps, the SRT file and the ASS file have the same number of
\* entries, and the entries of the same rank start at the same instant and
\* end at the same instant.
C15_SrtAndAssAgree ==
    (enable_subtitles /\ {srt_path, ass_path} \subseteq DOMAIN files) =>
        LET srt == files[srt_path].entries
            ass == files[ass_path].entries
        IN /\ Len(srt) = Len(ass)
           /\ \A e \in 1..Min(Len(srt), Len(ass)) :
                 /\ SameInstant(srt[e].start, ass[e].start)
                 /\ SameInstant(srt[e].end, ass[e].end)

SceneLevelOps == {"generate_ass", "generate_srt"}
WordSyncedOps == {"generate_ass_word_synced"}

\* C16: with subtitles enabled a run uses one caption strategy: the
\* word-synced generator alone when wordTimestamps is a non-empty list, the
\* scene-level generators alone otherwise; the caption stage cannot fail
\* over missing word timestamps, and no run has caption output of both
\* strategies.
C16_ExactlyOneCaptionStrategy ==
    LET has_words == script_data.wordTimestamps # <<>>
        made == {files[p].by : p \in {srt_path, ass_path} \cap DOMAIN files}
        captioned == enable_subtitles
                        /\ pc \in {"burn", "final_probe", "cleanup", "done"}
    IN /\ has_words => /\ Ops \cap SceneLevelOps = {}
                       /\ made \subseteq WordSyncedOps
                       /\ captioned => Ops \cap WordSyncedOps # {}
       /\ ~has_words => /\ Ops \cap WordSyncedOps = {}
                        /\ made \subseteq SceneLevelOps
                        /\ captioned => SceneLevelOps \subseteq Ops
       /\ pc = "captions" => ENABLED GenerateCaptions
       /\ ~(made \cap WordSyncedOps # {} /\ made \cap SceneLevelOps # {})

\* the scene has narration text left after trimming
NonBlank(text) == \E j \in 1..Len(text) : text[j] # " "
IsNarrated(k) == NonBlank(scenes[k].narration)
\* rank of scene k among the narrated scenes up to k
NarratedUpTo(k) == Cardinality({j \in 1..k : IsNarrated(j)})
\* scaled duration of scene k, and of all the scenes before scene k, in
\* units of 1/scale_factor.den seconds
ScaledDuration(k) == ScriptedDuration(scenes[k]) * scale_factor.num
ScaledBefore(k) == SumSeq([j \in 1..(k - 1) |-> ScaledDuration(j)])
SceneLevelFiles ==
    {p \in DOMAIN files : files[p].by \in SceneLevelOps}

\* C17: generate_srt and generate_ass each emit one entry per scene whose
\* narration is non-empty after trimming, in scene order; the entry of
\* scene k starts at the sum of the scaled durations of all scenes before
\* k, narrated or not, and ends one scaled duration of scene k later; so
\* of two consecutive narrated scenes the first ends where the second
\* starts.
C17_SceneLevelEntries ==
    \A p \in SceneLevelFiles :
        LET entries == files[p].entries
        IN /\ Len(entries) = NarratedUpTo(NumScenes)
           /\ \A k \in 1..NumScenes :
                 IsNarrated(k) =>
                    LET e == entries[NarratedUpTo(k)]
                    IN /\ e.start.den = scale_factor.den
                       /\ e.end.den = scale_factor.den
                       /\ e.start.num = ScaledBefore(k)
                       /\ e.end.num = e.start.num + ScaledDuration(k)
                       /\ NonBlank(e.text)
                       /\ e.text[1] # " " /\ e.text[Len(e.text)] # " "
           /\ \A k \in 1..(NumScenes - 1) :
                 (IsNarrated(k) /\ IsNarrated(k + 1)) =>
                    entries[NarratedUpTo(k)].end
                       = entries[NarratedUpTo(k + 1)].start

C17_Witness ==
    /\ {srt_path, ass_path} \subseteq SceneLevelFiles
    /\ NumScenes >= 2
    /\ ~IsNarrated(1)
    /\ scenes[1].narration # <<>>
    /\ IsNarrated(2)
    /\ scenes[2].narration # Narrated
    /\ scenes[1].duration # scenes[2].duration
    /\ Len(files[srt_path].entries) = 1

\* C18: every scene-level caption starts and ends between 0 and the total
\* of the effective scene durations, which is the measured narration when
\* the scripted sum is positive; starts do not decrease and a caption ends
\* no later than the next one starts.
C18_SceneLevelWithinTimeline ==
    \A p \in SceneLevelFiles :
        LET entries == files[p].entries
            total == ScaledBefore(NumScenes + 1)
        IN /\ scale_factor.den > 0
           /\ TotalScripted(scenes) > 0 =>
                 total * FPS = audio_duration * scale_factor.den
           /\ \A e \in 1..Len(entries) :
                 /\ entries[e].start.den = scale_factor.den
                 /\ entries[e].end.den = scale_factor.den
                 /\ 0 <= entries[e].start.num
                 /\ entries[e].start.num <= entries[e].end.num
                 /\ entries[e].end.num <= total
           /\ \A e \in 1..(Len(entries) - 1) :
                 /\ entries[e].start.num <= entries[e + 1].start.num
                 /\ entries[e].end.num <= entries[e + 1].start.num

C18_Witness ==
    /\ {srt_path, ass_path} \subseteq SceneLevelFiles
    /\ Len(files[ass_path].entries) >= 2
    /\ files[ass_path].entries[2].start.num > 0
    /\ files[ass_path].entries[2].end.num * FPS
          = audio_duration * scale_factor.den

\* C19: generate_ass_word_synced over W word timestamps with chunk size K
\* makes ceil(W/K) entries; entry c (from 0) holds the words c*K up to
\* min((c+1)*K, W)-1 in order, starts where its first word starts and ends
\* where its last word ends; no word gives no entry.
C19_WordChunks ==
    \A c \in 1..Len(calls) :
        (calls[c].op = "generate_ass_word_synced"
            /\ calls[c].out \in DOMAIN files
            /\ files[calls[c].out].by = "generate_ass_word_synced") =>
          LET K == calls[c].words_per_chunk
              words == script_data.wordTimestamps
              W == Len(words)
              entries == files[calls[c].out].entries
              first(n) == (n - 1) * K + 1
              last(n) == Min(n * K, W)
          IN /\ K >= 1
             /\ Len(entries) = (W + K - 1) \div K
             /\ W = 0 => entries = <<>>
             /\ \A n \in 1..Len(entries) :
                   /\ Len(entries[n].text) = last(n) - first(n) + 1
                   /\ \A w \in first(n)..last(n) :
                         entries[n].text[w - first(n) + 1] = words[w].word
                   /\ SameInstant(entries[n].start,
                                  [num |-> words[first(n)].start,
                                   den |-> FPS])
                   /\ SameInstant(entries[n].end,
                                  [num |-> words[last(n)].end, den |-> FPS])
             /\ W > 0 =>
                   /\ entries[1].start.num = words[1].start
                   /\ entries[Len(entries)].end.num = words[W].end

C19_Witness ==
    /\ ass_path \in DOMAIN files
    /\ files[ass_path].by = "generate_ass_word_synced"
    /\ Len(script_data.wordTimestamps) = 3
    /\ calls[Len(calls)].words_per_chunk = 2
    /\ Len(files[ass_path].entries) = 2
    /\ Len(files[ass_path].entries[2].text) = 1

\* C20: whichever mixer ran, with music or with narration only, the file
\* it wrote lasts as long as the shorter of the silent video and the
\* narration; the music's length does not shorten it.
C20_MixedIsShorterOfVideoAndNarration ==
    \A c \in 1..Len(calls) :
        (calls[c].op \in Mixers /\ calls[c].ok
            /\ calls[c].out \in DOMAIN files
            /\ files[calls[c].out].by \in Mixers
            /\ combined_path \in DOMAIN files) =>
          files[calls[c].out].frames
              = Min(files[combined_path].frames, audio_duration)

\* C21: every Ken Burns render takes the motion variant numbered
\* (scene index mod number of variants) of at least four variants, the
\* index being the scene's position in the script (from 0) whether or not
\* earlier scenes were dropped.
C21_MotionVariantByIndex ==
    /\ Len(KB_DIRECTIONS) >= 4
    /\ (attempt.index > 0 /\ attempt.strategy = "ken_burns") =>
          attempt.direction
              = KB_DIRECTIONS[((attempt.index - 1) % Len(KB_DIRECTIONS)) + 1]

\* C22: no step of the run changes the script document in memory, and the
\* document written back equals the one read at the start in its title,
\* scene list (scripted durations, not scaled ones, asset and narration
\* fields), audio and music paths, subtitles flag and word timestamps;
\* only outputVideo and actualDuration differ.
C22_ScriptUnchangedButResults ==
    [][ /\ script_data' = script_data
        /\ writes' # writes =>
              LET w == writes'[Len(writes')]
              IN /\ w.title = script_data.title
                 /\ w.scenes = script_data.scenes
                 /\ w.audioPath = script_data.audioPath
                 /\ w.musicPath = script_data.musicPath
                 /\ w.subtitles = script_data.subtitles
                 /\ w.wordTimestamps = script_data.wordTimestamps
                 /\ DOMAIN w = DOMAIN script_data
      ]_vars

C22_Witness ==
    /\ pc = "done"
    /\ Len(writes) = 1
    /\ writes[1].scenes = scenes
    /\ scale_factor.num # scale_factor.den
    /\ \E k \in 1..NumScenes : scenes[k].duration = Missing
    /\ script_data.wordTimestamps # <<>>
    /\ script_data.subtitles /\ ~enable_subtitles
    /\ writes[1].outputVideo # script_data.outputVideo

\* number of probe calls made before the scene loop
ProbeCalls ==
    IF Len(calls) >= 2 /\ calls[2].op = "probe_music" THEN 2 ELSE 1
\* the scenes visited so far whose render produced a clip
RenderedScenes ==
    {k \in 1..NumScenes : k < i /\ calls[ProbeCalls + k].ok}

\* C23: during the scene loop and up to concatenation the clip list holds
\* one entry for every scene rendered so far and none for a skipped or
\* failed scene, in the order of the scenes in the script; concatenation
\* joins exactly these clips.
C23_ClipListInScriptOrder ==
    /\ (ScaleKnown /\ i >= 1) =>
          /\ Len(temp_clips) = Cardinality(RenderedScenes)
          /\ \A k \in RenderedScenes :
                temp_clips[Cardinality({j \in RenderedScenes : j <= k})]
                    = ClipPath(scenes[k].sceneNumber)
    /\ (pc = "mix" /\ combined_path \in DOMAIN files) =>
          files[combined_path].frames
              = SumSeq([k \in 1..Len(temp_clips) |->
                           files[temp_clips[k]].frames])

C23_Witness ==
    /\ pc = "mix"
    /\ NumScenes >= 2
    /\ Len(temp_clips) = 1
    /\ temp_clips[1] = ClipPath(scenes[2].sceneNumber)
    /\ ~calls[ProbeCalls + 1].ok

\* C24: every clip in the clip list, made from an image or from a video
\* clip, is as long as its scene's effective duration to within a frame;
\* so when every scene rendered, the concatenated video is as long as the
\* measured narration to within a frame per scene.
C24_ClipLengthIsEffectiveDuration ==
    /\ \A k \in 1..NumScenes :
          LET clip == ClipPath(scenes[k].sceneNumber)
          IN (ScaleKnown /\ clip \in DOMAIN files
                 /\ \E c \in 1..Len(temp_clips) : temp_clips[c] = clip) =>
               Abs(files[clip].frames * scale_factor.den
                     - ScriptedDuration(scenes[k]) * scale_factor.num * FPS)
                  < scale_factor.den
    /\ (pc = "mix" /\ Len(temp_clips) = NumScenes
           /\ TotalScripted(scenes) > 0) =>
          Abs(files[combined_path].frames - audio_duration) <= NumScenes

\* frames of the concatenated video that come before the clip at place c
\* of the clip list
FramesBefore(c) ==
    SumSeq([j \in 1..(c - 1) |-> files[temp_clips[j]].frames])

\* C28: in a run with scene-level captions, whether or not scenes were
\* dropped, every caption belongs to a scene whose clip is in the video,
\* and it starts when that clip starts in the concatenated video (to
\* within a frame for each clip before it).
C28_CaptionsAlignedWithPicture ==
    (pc = "burn" /\ files[ass_path].by = "generate_ass") =>
        LET entries == files[ass_path].entries
        IN \A k \in 1..NumScenes :
             IsNarrated(k) =>
               /\ \E c \in 1..Len(temp_clips) :
                     temp_clips[c] = ClipPath(scenes[k].sceneNumber)
               /\ \A c \in 1..Len(temp_clips) :
                     temp_clips[c] = ClipPath(scenes[k].sceneNumber) =>
                       Abs(entries[NarratedUpTo(k)].start.num * FPS
                             - FramesBefore(c) * scale_factor.den)
                          <= c * scale_factor.den

\* C29: no condition of the music file ends the job before the scenes are
\* rendered: a run with probeable narration never fails over the music
\* probe, whose result is read by no stage.
C29_MusicNeverAborts ==
    /\ failure # "probe_music"
    /\ \A c \in 1..Len(calls) :
          (calls[c].op = "probe_music" /\ ~calls[c].ok) =>
              (pc # "failed" /\ ScaleKnown)

\* C30: whatever the title and the scene numbers, <slug>.mp4 is none of
\* clip-<sceneNumber>.mp4, combined.mp4 and with-audio.mp4; no stage is
\* given the same file to read and to write, and the final video is still
\* there after the cleanup.
C30_FinalPathApartFromIntermediates ==
    /\ final_path \notin {combined_path, audio_path}
                            \cup {ClipPath(scenes[k].sceneNumber) :
                                     k \in 1..NumScenes}
    /\ \A c \in 1..Len(calls) :
          calls[c].in # NoPath => calls[c].in # calls[c].out
    /\ pc = "done" => final_path \in DOMAIN files

Terminated == pc \in {"done", "failed"}
LoopLeft ==
    \/ pc \in {"concat", "mix", "captions", "burn", "move", "final_probe",
               "cleanup", "done"}
    \/ pc = "failed" /\ failure \in {"no_clips", "concat", "mix", "burn",
                                      "probe_final"}
RenderCalls == SelectSeq(calls, LAMBDA c : c.op = "render_scene")
OnceOnlyOps ==
    {"probe_narration", "probe_music", "concatenate_videos", "generate_ass",
     "generate_ass_word_synced", "generate_srt", "burn_subtitles", "move",
     "probe_final", "cleanup", "save_script_json"}

ToolOps ==
    {"probe_narration", "probe_music", "render_scene", "concatenate_videos",
     "probe_final"} \cup Mixers
ToolCalls == SelectSeq(calls, LAMBDA c : c.op \in ToolOps)
Succeeded(ops) == \E c \in 1..Len(calls) : calls[c].op \in ops /\ calls[c].ok
RenderedPaths ==
    {RenderCalls[k].out : k \in {j \in 1..Len(RenderCalls) : RenderCalls[j].ok}}
Intermediates ==
    RenderedPaths \cup (IF Succeeded({"concatenate_videos"})
                        THEN {combined_path} ELSE {})
FailureOf(op) ==
    CASE op = "concatenate_videos" -> "concat"
      [] op \in Mixers -> "mix"
      [] OTHER -> op
\* the terminal state, the files and the script write as functions of the
\* script, the flags and the tools' outcomes alone
ExpectedFailure ==
    LET last == ToolCalls[Len(ToolCalls)]
    IN  IF ~last.ok /\ last.op # "render_scene" THEN FailureOf(last.op)
        ELSE IF RenderedPaths = {} THEN "no_clips"
        ELSE "none"
ExpectedFiles ==
    IF pc = "done" THEN {final_path} \ Intermediates
    ELSE Intermediates \cup (IF Succeeded(Mixers) THEN {final_path} ELSE {})
ExpectedWrites ==
    IF pc = "done"
    THEN << SavedScript(script_data, final_path, final_duration) >>
    ELSE <<>>

JobIntermediates ==
    {ClipPath(scenes[k].sceneNumber) : k \in 1..NumScenes}
        \cup {combined_path, audio_path}
WrittenByOther == {p \in DOMAIN files : files[p].by = OtherJob}
OwnClipFrames ==
    SumSeq([k \in 1..NumScenes |->
               ClipFramesFor(EffectiveDuration(scenes[k], scale_factor))])

\* C25: two jobs on one output directory keep their intermediates under the
\* same names (the second job's clip k is this job's clip k; every
\* file the second job wrote lies at a path this job uses or at the second
\* job's final path), and
\* neither job ever waits for the other: each has a step to take whenever it
\* has not ended.
C25_JobsShareIntermediateNames ==
    /\ \A k \in 1..Len(other.temp_clips) :
          other.temp_clips[k] = ClipPath(scenes[k].sceneNumber)
    /\ WrittenByOther \subseteq
          JobIntermediates \cup {other_final_path, final_path}
    \* the other job's file at this job's final path was moved there by
    \* this job itself, from with-audio.mp4
    /\ final_path \in WrittenByOther => "move" \in Ops
    /\ ~Terminated => ENABLED Next
    /\ other.pc \notin {"done", "failed"} => ENABLED OtherNext

\* this job has just concatenated its clip list, in which a clip is the one
\* the other job wrote under the same name: the combined video has the other
\* job's picture and length
C25_Witness ==
    /\ pc = "mix"
    /\ Len(temp_clips) = NumScenes
    /\ Present(files, {temp_clips[k] : k \in 1..Len(temp_clips)})
    /\ \E k \in 1..Len(temp_clips) : files[temp_clips[k]].by = OtherJob
    /\ Present(files, {combined_path})
    /\ files[combined_path].by = "concatenate_videos"
    /\ files[combined_path].frames = ClipFrames(files, temp_clips)
    /\ files[combined_path].frames # OwnClipFrames

\* this job fails at the concatenation because the other job's cleanup has
\* removed a clip of this job's list
C25_DeletedByOther ==
    /\ pc = "failed"
    /\ failure = "concat"
    /\ other.pc = "done"
    /\ ~Present(files, {temp_clips[k] : k \in 1..Len(temp_clips)})

====
